---- MODULE Spec2Model ----
(***************************************************************************)
(* daddylive_scraper.py: a listing page is fetched, its channel tiles are  *)
(* enumerated, each tile's player page is resolved to an .m3u8 stream      *)
(* address (following iframes recursively), and the records found are      *)
(* written to an M3U playlist file.                                        *)
(*                                                                         *)
(* Text is handled character by character (a string is a sequence of      *)
(* characters), so the regular expressions, split/join/lstrip and the      *)
(* playlist text are computed as the program computes them.                *)
(***************************************************************************)
EXTENDS Integers, Sequences, FiniteSets, TLC

VARIABLES
    main_page,      \* the remote listing page: [ok, nodes]
    page_1,         \* the remote page at player.php?id=1: [ok, body]
    pc,             \* position of the single thread of control
    channel_divs,   \* scrape_daddylive_channels: the matched div elements
    div_i,          \* index of the for-loop over channel_divs
    link_tag,       \* the anchor element found in the current div (0: none)
    channel_name,   \* the name extracted for the current div
    channels_data,  \* the accumulated records [name, url]
    stack,          \* call stack of extract_m3u8_from_player_page
    m3u8_url,       \* value returned by the innermost returned call
    resolved,       \* one entry [tag, url, result] per completed call at line 74
    requests,       \* every address passed to requests.get, in order
    console,        \* what was printed, one tag per message
    m3u_content,    \* create_m3u_playlist: the text built
    file            \* the playlist file on disk: [exists, content]

vars == <<main_page, page_1, pc, channel_divs, div_i, link_tag, channel_name,
          channels_data, stack, m3u8_url, resolved, requests, console,
          m3u_content, file>>

----------------------------------------------------------------------------
(* Bounds of the model *)

MaxTiles == 2
MaxElems == 2
MaxRecords == 2
RecursionLimit == 7

----------------------------------------------------------------------------
(* Strings.  Only Len, SubSeq and \o are applied to them. *)

None == ""

At(s, i) == SubSeq(s, i, i)

Min(S) == CHOOSE x \in S : \A y \in S : x <= y
Max(S) == CHOOSE x \in S : \A y \in S : x >= y

StartsWithAt(s, i, p) ==
    /\ i >= 1
    /\ i + Len(p) - 1 <= Len(s)
    /\ SubSeq(s, i, i + Len(p) - 1) = p

startswith(s, p) == StartsWithAt(s, 1, p)

Contains(s, p) == \E i \in 1..(Len(s) + 1) : StartsWithAt(s, i, p)

IsSpace(c) == c \in {" ", "\t", "\n", "\r", "\f"}
IsQuote(c) == c \in {"\"", "'"}
IsDigit(c) == c \in {"0", "1", "2", "3", "4", "5", "6", "7", "8", "9"}

\* str.lstrip('/')
RECURSIVE lstrip_slash(_)
lstrip_slash(s) ==
    IF Len(s) > 0 /\ At(s, 1) = "/"
    THEN lstrip_slash(SubSeq(s, 2, Len(s)))
    ELSE s

\* str.split('/')
RECURSIVE split_slash(_)
split_slash(s) ==
    IF \A i \in 1..Len(s) : At(s, i) # "/"
    THEN <<s>>
    ELSE LET k == Min({i \in 1..Len(s) : At(s, i) = "/"})
         IN  <<SubSeq(s, 1, k - 1)>> \o split_slash(SubSeq(s, k + 1, Len(s)))

\* '/'.join(parts)
RECURSIVE join_slash(_)
join_slash(parts) ==
    IF parts = <<>> THEN ""
    ELSE IF Len(parts) = 1 THEN parts[1]
    ELSE parts[1] \o "/" \o join_slash(Tail(parts))

\* get_text(strip=True) of an element holding one text node
strip(s) ==
    IF \A i \in 1..Len(s) : IsSpace(At(s, i)) THEN ""
    ELSE LET a == Min({i \in 1..Len(s) : ~IsSpace(At(s, i))})
             b == Max({i \in 1..Len(s) : ~IsSpace(At(s, i))})
         IN  SubSeq(s, a, b)

----------------------------------------------------------------------------
(* m3u8_pattern = (https?://[^\s"\']*\.m3u8(?:[^\s"\']*?)?) *)

UrlChar(c) == ~IsSpace(c) /\ ~IsQuote(c)

\* https?:// at position i: the number of characters it takes, 0 if it fails
SchemeLenAt(s, i) ==
    IF StartsWithAt(s, i, "https://") THEN 8
    ELSE IF StartsWithAt(s, i, "http://") THEN 7
    ELSE 0

\* the last index of the run of [^\s"\'] characters that starts at j
RECURSIVE RunEnd(_, _)
RunEnd(s, j) ==
    IF j <= Len(s) /\ UrlChar(At(s, j)) THEN RunEnd(s, j + 1) ELSE j - 1

\* [^\s"\']*\.m3u8 from j: the greedy star gives back characters until the
\* literal fits, so the literal taken is the last one inside the run;
\* the index of its last character, 0 if there is none
ExtEndAt(s, j) ==
    LET ps == {p \in j..(RunEnd(s, j) - 4) : StartsWithAt(s, p, ".m3u8")}
    IN  IF ps = {} THEN 0 ELSE Max(ps) + 4

\* (?:[^\s"\']*?)? after index e: the star is lazy and nothing follows the
\* group, so the shortest repetition that lets the pattern finish is taken
TailLen(s, e) == Min(0..(RunEnd(s, e + 1) - e))

\* the index of the last character of the match that starts at i, 0 if none
MatchEndAt(s, i) ==
    LET n == SchemeLenAt(s, i)
        e == IF n = 0 THEN 0 ELSE ExtEndAt(s, i + n)
    IN  IF e = 0 THEN 0 ELSE e + TailLen(s, e)

\* m3u8_pattern.search(player_html), then match.group(1); None if no match
m3u8_search(s) ==
    LET starts == {i \in 1..Len(s) : MatchEndAt(s, i) # 0}
    IN  IF starts = {} THEN None
        ELSE LET i == Min(starts) IN SubSeq(s, i, MatchEndAt(s, i))

----------------------------------------------------------------------------
(* Remote pages.  A player page is the sequence of the pieces of its       *)
(* markup: runs of text or script, and iframe elements (s: the src         *)
(* attribute, "" when the element has none).                               *)

Text(s) == [kind |-> "text", s |-> s]
Iframe(src) == [kind |-> "iframe", s |-> src]

Page(body) == [ok |-> TRUE, body |-> body]
HttpError == [ok |-> FALSE, body |-> <<>>]

\* player_response.text: the raw markup the pattern is searched in
RenderElem(e) ==
    IF e.kind = "text" THEN e.s
    ELSE IF e.s = "" THEN "<iframe></iframe>"
    ELSE "<iframe src=\"" \o e.s \o "\"></iframe>"

RECURSIVE player_html(_)
player_html(body) ==
    IF body = <<>> THEN "" ELSE RenderElem(Head(body)) \o player_html(Tail(body))

\* BeautifulSoup(player_html).find('iframe'), then iframe_tag.get('src'):
\* the src of the FIRST iframe element; None when the page has no iframe or
\* its first iframe has no (or an empty) src
iframe_src_of(body) ==
    LET fs == {i \in 1..Len(body) : body[i].kind = "iframe"}
    IN  IF fs = {} THEN None ELSE body[Min(fs)].s

Origin == "https://daddylive.dad/"

\* The site the listings of Spec refer to.  An address outside the domain
\* does not answer (the request raises a RequestException).
Web ==
    (Origin \o "player.php?id=903" :>
        Page(<<Text("jwplayer().setup({ file: \"https://cdn.example/live/903.m3u8?token=abc\" });")>>))
 @@ (Origin \o "player.php?id=2" :> HttpError)
 @@ (Origin \o "player.php?id=3" :> Page(<<Text("<p>offline</p>")>>))
 @@ (Origin \o "player.php?id=4" :>
        Page(<<Text("<h1>News</h1>"), Iframe("https://cdn.example/embed/4.php?c=1")>>))
 @@ ("https://cdn.example/embed/4.php?c=1" :>
        Page(<<Text("<script>"), Iframe("/inner.html")>>))
 @@ ("https://cdn.example/embed/inner.html" :>
        Page(<<Text("src: 'http://c.tv/4.m3u8'")>>))
 @@ (Origin \o "player.php?id=5" :> Page(<<Iframe("foo.html")>>))
 @@ (Origin \o "foo.html" :>
        Page(<<Text("source: \"https://c.tv/5.m3u8\" ")>>))
 @@ (Origin \o "player.php?id=6" :>
        Page(<<Iframe(Origin \o "player.php?id=6")>>))
 @@ (Origin \o "player.php?id=7" :>
        Page(<<Iframe("https://cdn.example/other.html"),
               Text("file:'http://c.tv/7.m3u8'")>>))
 @@ ("https://cdn.example/other.html" :>
        Page(<<Text("file:'http://c.tv/o.m3u8'")>>))
 @@ (Origin \o "player.php?id=8&back=/24-7-channels.php" :>
        Page(<<Iframe("foo.html")>>))
 @@ (Origin \o "player.php?id=9" :>
        Page(<<Iframe(""), Iframe("https://cdn.example/other.html")>>))
 @@ (Origin \o "player.php?id=10" :>
        Page(<<Iframe("https://cdn.example/loop.html")>>))
 @@ ("https://cdn.example/loop.html" :>
        Page(<<Iframe(Origin \o "player.php?id=10")>>))
 @@ (Origin \o "player.php?id=11" :>
        Page(<<Iframe("https://cdn.example/gone.html")>>))

\* the remote player and frame pages, url -> [ok, body]: the site, and the
\* one page of it that varies
web == (Origin \o "player.php?id=1" :> page_1) @@ Web

\* The pieces the pages of SpecPages are built from
Elems ==
    { Text("file: \"https://cdn.example/live/903.m3u8?token=abc\""),
      Text("src:'http://c.tv/a.m3u8.bak/b.m3u8/c' "),
      Text("var home = \"https://cdn.example/index.html\";\n"),
      Text(" https://cdn.example/x .m3u8 "),
      Iframe("https://cdn.example/other.html"),
      Iframe("foo.html"),
      Iframe(""),
      Iframe(Origin \o "player.php?id=1") }

Bodies == UNION {[1..n -> Elems] : n \in 0..MaxElems}

----------------------------------------------------------------------------
(* The listing page: its elements in document order, each with the index   *)
(* of its parent element (0: the document root).                           *)

Div(parent, cls) ==
    [tag |-> "div", parent |-> parent, cls |-> cls, href |-> "",
     has_h2 |-> FALSE, h2 |-> "", text |-> ""]

\* an anchor; has_h2: an h2 element is nested in it, h2: that element's text,
\* text: the text of the anchor itself
A(parent, href, has_h2, h2, text) ==
    [tag |-> "a", parent |-> parent, cls |-> "", href |-> href,
     has_h2 |-> has_h2, h2 |-> h2, text |-> text]

Listing(nodes) == [ok |-> TRUE, nodes |-> nodes]
MainFetchError == [ok |-> FALSE, nodes |-> <<>>]

MainUrl == "https://daddylive.dad/24-7-channels.php"

\* as if the divs were selected with class_=True: any div that has a class
class_matches_any(cls) == cls # ""

\* class_=re.compile(r'col-lg-2|col-md-3|col-sm-4|col-xs-6'), searched in the
\* class attribute
class_matches(cls) ==
    \E pat \in {"col-lg-2", "col-md-3", "col-sm-4", "col-xs-6"} : Contains(cls, pat)

\* href=re.compile(r'player\.php\?id=\d+'), searched in the href attribute
href_matches(href) ==
    \E i \in 1..Len(href) :
        /\ StartsWithAt(href, i, "player.php?id=")
        /\ IsDigit(At(href, i + 14))

RECURSIVE IsDescendant(_, _, _)
IsDescendant(nodes, n, d) ==
    /\ nodes[n].parent # 0
    /\ \/ nodes[n].parent = d
       \/ IsDescendant(nodes, nodes[n].parent, d)

\* the indices in S as an increasing sequence
RECURSIVE InOrder(_)
InOrder(S) == IF S = {} THEN <<>> ELSE <<Min(S)>> \o InOrder(S \ {Min(S)})

\* soup.find_all('div', class_=...): every matching div, nested ones too,
\* in document order
find_all_divs(nodes) ==
    InOrder({n \in 1..Len(nodes) :
                nodes[n].tag = "div" /\ class_matches(nodes[n].cls)})

\* div.find('a', href=...): the first matching anchor below div, 0 if none
find_link(nodes, div) ==
    LET as == {n \in 1..Len(nodes) :
                  /\ nodes[n].tag = "a"
                  /\ IsDescendant(nodes, n, div)
                  /\ href_matches(nodes[n].href)}
    IN  IF as = {} THEN 0 ELSE Min(as)

\* lines 61-66: the h2's text if the anchor holds an h2, else the anchor's
name_of(a) == IF a.has_h2 THEN strip(a.h2) ELSE strip(a.text)

\* line 70
player_url_of(a) == Origin \o a.href

\* The tiles the listings of Spec are built from; parents are relative to
\* the tile
Tiles ==
    { <<Div(0, "col-lg-2"),
        A(1, "player.php?id=903", TRUE, "Sample Channel", "")>>,
      <<Div(0, "col-lg-2 col-md-3 col-sm-4 col-xs-6"), Div(1, "hovereffect"),
        A(2, "player.php?id=4", TRUE, "\n  Sky\nNews\n", "")>>,
      <<Div(0, "col-md-3"),
        A(1, "player.php?id=7", FALSE, "", "")>>,
      <<Div(0, "col-lg-2"), Div(1, "col-md-3"),
        A(2, "player.php?id=5", FALSE, "", " Kids ")>>,
      <<Div(0, "row"),
        A(1, "player.php?id=903", TRUE, "Unlisted", "")>>,
      <<Div(0, "col-sm-4"),
        A(1, "about.html", FALSE, "", "About")>>,
      <<Div(0, "col-xs-6"),
        A(1, "player.php?id=2", TRUE, "Down", "")>>,
      <<Div(0, "col-lg-2"),
        A(1, "player.php?id=6", TRUE, "Loop", "")>>,
      <<Div(0, "col-lg-2"),
        A(1, "player.php?id=3", TRUE, "Offline", "")>>,
      <<Div(0, "col-lg-2"),
        A(1, "player.php?id=11", FALSE, "", "Gone"),
        A(1, "player.php?id=903", FALSE, "", "Second")>> }

Shift(tile, k) ==
    [i \in 1..Len(tile) |->
        [tile[i] EXCEPT !.parent = IF @ = 0 THEN 0 ELSE @ + k]]

RECURSIVE Lay(_)
Lay(tiles) ==
    IF tiles = <<>> THEN <<>>
    ELSE LET front == Lay(SubSeq(tiles, 1, Len(tiles) - 1))
         IN  front \o Shift(tiles[Len(tiles)], Len(front))

Listings == {Listing(Lay(ts)) : ts \in UNION {[1..n -> Tiles] : n \in 0..MaxTiles}}

\* The addresses the single tile of SpecPages links to
Hrefs ==
    { "player.php?id=903", "player.php?id=2", "player.php?id=3",
      "player.php?id=4", "player.php?id=5", "player.php?id=6",
      "player.php?id=7", "player.php?id=8&back=/24-7-channels.php",
      "player.php?id=9", "player.php?id=10", "player.php?id=11" }

OneTile(href) ==
    Listing(<<Div(0, "col-lg-2"), A(1, href, TRUE, "Channel", "")>>)

OldFile == [exists |-> TRUE, content |-> "#EXTM3U\n#EXTINF:-1,Old\nhttp://old.example/o.m3u8\n"]
NoFile == [exists |-> FALSE, content |-> ""]

----------------------------------------------------------------------------
(* scrape_daddylive_channels *)

Say(msgs) == console' = console \o msgs

\* requests.get(url) followed by raise_for_status(), for a player page
fetch_ok(url) == url \in DOMAIN web /\ web[url].ok

\* lines 11-20
FetchMainPage ==
    /\ pc = "fetch_main"
    /\ requests' = Append(requests, MainUrl)
    /\ channels_data' = <<>>
    /\ IF main_page.ok
       THEN /\ Say(<<"Fetching main page">>)
            /\ pc' = "find_divs"
       ELSE /\ Say(<<"Fetching main page", "Error fetching the main page">>)
            /\ pc' = "main"
    /\ UNCHANGED <<main_page, page_1, channel_divs, div_i, link_tag, channel_name,
                   stack, m3u8_url, resolved, m3u_content, file>>

\* lines 52-56
FindChannelDivs ==
    /\ pc = "find_divs"
    /\ channel_divs' = find_all_divs(main_page.nodes)
    /\ div_i' = 1
    /\ IF channel_divs' = <<>>
       THEN /\ Say(<<"Could not find any channel divs">>)
            /\ pc' = "main"
       ELSE /\ UNCHANGED console
            /\ pc' = "loop"
    /\ UNCHANGED <<main_page, page_1, link_tag, channel_name, channels_data,
                   stack, m3u8_url, resolved, requests, m3u_content, file>>

\* lines 58-74: one turn of the loop up to the call of the resolver, or the
\* end of the loop (line 83)
NextDiv ==
    /\ pc = "loop"
    /\ IF div_i > Len(channel_divs)
       THEN /\ pc' = "main"
            /\ UNCHANGED <<div_i, link_tag, channel_name, stack, console>>
       ELSE LET link == find_link(main_page.nodes, channel_divs[div_i])
            IN  /\ link_tag' = link
                /\ IF link = 0
                   THEN /\ div_i' = div_i + 1
                        /\ pc' = "loop"
                        /\ UNCHANGED <<channel_name, stack, console>>
                   ELSE /\ channel_name' = name_of(main_page.nodes[link])
                        /\ Say(<<"Found channel">>)
                        /\ stack' = <<[player_page_url |->
                                          player_url_of(main_page.nodes[link]),
                                       iframe_src |-> None]>>
                        /\ pc' = "extract"
                        /\ UNCHANGED div_i
    /\ UNCHANGED <<main_page, page_1, channel_divs, channels_data, m3u8_url,
                   resolved, requests, m3u_content, file>>

----------------------------------------------------------------------------
(* extract_m3u8_from_player_page *)

\* lines 131-132
resolve_relative(player_page_url, iframe_src) ==
    LET base_url_parts == split_slash(player_page_url)
    IN  join_slash(SubSeq(base_url_parts, 1, Len(base_url_parts) - 1))
            \o "/" \o lstrip_slash(iframe_src)

\* lines 128-136: the address the recursive call is made on
frame_target(player_page_url, iframe_src) ==
    IF ~startswith(iframe_src, "http")
    THEN resolve_relative(player_page_url, iframe_src)
    ELSE iframe_src

\* as if the iframe were looked for before the pattern is searched
extract_outcome_frame_first(player_page_url) ==
    IF ~fetch_ok(player_page_url)
    THEN [kind |-> "error", value |-> None]
    ELSE LET body == web[player_page_url].body
             match == m3u8_search(player_html(body))
             iframe_src == iframe_src_of(body)
         IN  IF iframe_src # None THEN [kind |-> "frame", value |-> iframe_src]
             ELSE IF match # None THEN [kind |-> "match", value |-> match]
             ELSE [kind |-> "none", value |-> None]

\* lines 90-138: what one call does with the page at player_page_url.
\* kind "error": the request failed (lines 93-95); "match": the pattern
\* matched, value is the match (lines 113-116); "frame": no match, and the
\* first iframe has a src, value (lines 124-125); "none": line 138
extract_outcome(player_page_url) ==
    IF ~fetch_ok(player_page_url)
    THEN [kind |-> "error", value |-> None]
    ELSE LET body == web[player_page_url].body
             match == m3u8_search(player_html(body))
             iframe_src == iframe_src_of(body)
         IN  IF match # None THEN [kind |-> "match", value |-> match]
             ELSE IF iframe_src # None THEN [kind |-> "frame", value |-> iframe_src]
             ELSE [kind |-> "none", value |-> None]

\* what one call prints
extract_messages(out) ==
    <<"Fetching player page">> \o
    CASE out.kind = "error" -> <<"Error fetching player page">>
      [] out.kind = "match" -> <<"Extracted M3U8 URL">>
      [] out.kind = "none"  -> <<"No M3U8 URL found">>
      [] out.kind = "frame" ->
            <<"No M3U8 URL found", "Found iframe">>
                \o IF ~startswith(out.value, "http")
                   THEN <<"Resolved iframe URL">> ELSE <<>>

\* lines 85-138: one call, on the address of the innermost frame, up to its
\* return statement or to the recursive call it makes.  A call made when the
\* interpreter's call depth is used up raises RecursionError, which nothing
\* catches.
ExtractStep ==
    /\ pc = "extract"
    /\ LET player_page_url == stack[Len(stack)].player_page_url
           out == extract_outcome(player_page_url)
       IN  /\ requests' = Append(requests, player_page_url)
           /\ Say(extract_messages(out))
           /\ IF out.kind # "frame"
              THEN /\ m3u8_url' = out.value
                   /\ pc' = "return"
                   /\ UNCHANGED stack
              ELSE /\ UNCHANGED m3u8_url
                   /\ IF Len(stack) >= RecursionLimit
                      THEN /\ pc' = "crashed"
                           /\ stack' = [stack EXCEPT
                                           ![Len(stack)].iframe_src = out.value]
                      ELSE /\ pc' = "extract"
                           /\ stack' = Append(
                                 [stack EXCEPT ![Len(stack)].iframe_src = out.value],
                                 [player_page_url |->
                                     frame_target(player_page_url, out.value),
                                  iframe_src |-> None])
    /\ UNCHANGED <<main_page, page_1, channel_divs, div_i, link_tag, channel_name,
                   channels_data, resolved, m3u_content, file>>

\* lines 134 and 136: a call that recursed returns what its callee returned
ReturnFromFrame ==
    /\ pc = "return"
    /\ Len(stack) > 1
    /\ stack' = SubSeq(stack, 1, Len(stack) - 1)
    /\ UNCHANGED <<main_page, page_1, pc, channel_divs, div_i, link_tag,
                   channel_name, channels_data, m3u8_url, resolved, requests,
                   console, m3u_content, file>>

\* as if line 83, return channels_data, were indented into the else branch
\* of line 80: the first channel without an address ends the loop
CollectResult_return_in_else ==
    /\ pc = "return"
    /\ Len(stack) = 1
    /\ stack' = <<>>
    /\ resolved' = Append(resolved, [tag |-> link_tag,
                                     url |-> stack[1].player_page_url,
                                     result |-> m3u8_url])
    /\ IF m3u8_url # None
       THEN /\ channels_data' = Append(channels_data,
                                  [name |-> channel_name, url |-> m3u8_url])
            /\ pc' = "loop"
            /\ UNCHANGED console
       ELSE /\ Say(<<"Could not extract M3U8">>)
            /\ pc' = "main"
            /\ UNCHANGED channels_data
    /\ div_i' = div_i + 1
    /\ UNCHANGED <<main_page, page_1, channel_divs, link_tag, channel_name,
                   m3u8_url, requests, m3u_content, file>>

\* lines 74-81: the outermost call returns to the loop
CollectResult ==
    /\ pc = "return"
    /\ Len(stack) = 1
    /\ stack' = <<>>
    /\ resolved' = Append(resolved, [tag |-> link_tag,
                                     url |-> stack[1].player_page_url,
                                     result |-> m3u8_url])
    /\ IF m3u8_url # None
       THEN /\ channels_data' = Append(channels_data,
                                  [name |-> channel_name, url |-> m3u8_url])
            /\ UNCHANGED console
       ELSE /\ Say(<<"Could not extract M3U8">>)
            /\ UNCHANGED channels_data
    /\ div_i' = div_i + 1
    /\ pc' = "loop"
    /\ UNCHANGED <<main_page, page_1, channel_divs, link_tag, channel_name,
                   m3u8_url, requests, m3u_content, file>>

----------------------------------------------------------------------------
(* create_m3u_playlist and the main block *)

\* lines 163-167
MainCheck ==
    /\ pc = "main"
    /\ IF channels_data # <<>>
       THEN /\ pc' = "create"
            /\ UNCHANGED console
       ELSE /\ Say(<<"No channels were scraped. M3U playlist not created.">>)
            /\ pc' = "finish"
    /\ UNCHANGED <<main_page, page_1, channel_divs, div_i, link_tag, channel_name,
                   channels_data, stack, m3u8_url, resolved, requests,
                   m3u_content, file>>

\* lines 150-151
extinf_entry(channel) ==
    "#EXTINF:-1 tvg-name=\"" \o channel.name \o "\"," \o channel.name \o "\n"
        \o channel.url \o "\n"

\* lines 148-151
RECURSIVE build_m3u_content(_)
build_m3u_content(channels) ==
    IF channels = <<>> THEN "#EXTM3U\n"
    ELSE build_m3u_content(SubSeq(channels, 1, Len(channels) - 1))
            \o extinf_entry(channels[Len(channels)])

\* lines 144-152
CreatePlaylist ==
    /\ pc = "create"
    /\ IF channels_data = <<>>
       THEN /\ Say(<<"No channel data to create a playlist.">>)
            /\ pc' = "finish"
            /\ UNCHANGED m3u_content
       ELSE /\ m3u_content' = build_m3u_content(channels_data)
            /\ pc' = "open"
            /\ UNCHANGED console
    /\ UNCHANGED <<main_page, page_1, channel_divs, div_i, link_tag, channel_name,
                   channels_data, stack, m3u8_url, resolved, requests, file>>

\* line 154: open(filename, 'w') creates the file or truncates it, or raises
\* IOError and leaves the disk alone (lines 158-159)
OpenFile ==
    /\ pc = "open"
    /\ \/ /\ file' = [exists |-> TRUE, content |-> ""]
          /\ pc' = "write"
          /\ UNCHANGED console
       \/ /\ Say(<<"Error writing M3U file">>)
          /\ pc' = "finish"
          /\ UNCHANGED file
    /\ UNCHANGED <<main_page, page_1, channel_divs, div_i, link_tag, channel_name,
                   channels_data, stack, m3u8_url, resolved, requests,
                   m3u_content>>

\* lines 155-159: the text reaches the file, or the write (or the flush on
\* leaving the with block) raises IOError after some of it has
WriteFile ==
    /\ pc = "write"
    /\ \/ /\ file' = [exists |-> TRUE, content |-> m3u_content]
          /\ Say(<<"Successfully created M3U playlist", "Playlist saved to">>)
       \/ /\ \E n \in 0..(Len(m3u_content) - 1) :
                file' = [exists |-> TRUE, content |-> SubSeq(m3u_content, 1, n)]
          /\ Say(<<"Error writing M3U file">>)
    /\ pc' = "finish"
    /\ UNCHANGED <<main_page, page_1, channel_divs, div_i, link_tag, channel_name,
                   channels_data, stack, m3u8_url, resolved, requests,
                   m3u_content>>

\* line 168
Finish ==
    /\ pc = "finish"
    /\ Say(<<"Script finished.">>)
    /\ pc' = "done"
    /\ UNCHANGED <<main_page, page_1, channel_divs, div_i, link_tag, channel_name,
                   channels_data, stack, m3u8_url, resolved, requests,
                   m3u_content, file>>

----------------------------------------------------------------------------
(* Specifications *)

Locals ==
    /\ channel_divs = <<>>
    /\ div_i = 1
    /\ link_tag = 0
    /\ channel_name = ""
    /\ stack = <<>>
    /\ m3u8_url = None
    /\ resolved = <<>>
    /\ requests = <<>>
    /\ m3u_content = ""

\* the script is run on a listing laid out from the tiles
Init ==
    /\ main_page \in Listings \cup {MainFetchError}
    /\ page_1 = HttpError
    /\ pc = "fetch_main"
    /\ channels_data = <<>>
    /\ console = <<"Starting DaddyLive 24/7 Channels Scraper...">>
    /\ file \in {NoFile, OldFile}
    /\ Locals

Next ==
    \/ FetchMainPage
    \/ FindChannelDivs
    \/ NextDiv
    \/ ExtractStep
    \/ ReturnFromFrame
    \/ CollectResult
    \/ MainCheck
    \/ CreatePlaylist
    \/ OpenFile
    \/ WriteFile
    \/ Finish

Spec == Init /\ [][Next]_vars

\* the script is run on a listing of one tile; the tile links to a page of
\* the site, or to a page put together from Elems
InitPages ==
    /\ \/ /\ main_page \in {OneTile(h) : h \in Hrefs}
          /\ page_1 = HttpError
       \/ /\ main_page = OneTile("player.php?id=1")
          /\ page_1 \in {Page(b) : b \in Bodies}
    /\ pc = "fetch_main"
    /\ channels_data = <<>>
    /\ console = <<"Starting DaddyLive 24/7 Channels Scraper...">>
    /\ file = NoFile
    /\ Locals

SpecPages == InitPages /\ [][Next]_vars

\* create_m3u_playlist is called on a sequence of records
Names == {"Sample Channel", "", "Sky\nNews"}
Urls == {"https://cdn.example/live/903.m3u8", "http://c.tv/4.m3u8"}
Records == [name : Names, url : Urls]

InitPlaylist ==
    /\ main_page = MainFetchError
    /\ page_1 = HttpError
    /\ pc = "create"
    /\ channels_data \in UNION {[1..n -> Records] : n \in 0..MaxRecords}
    /\ console = <<>>
    /\ file \in {NoFile, OldFile}
    /\ Locals

NextPlaylist ==
    \/ CreatePlaylist
    \/ OpenFile
    \/ WriteFile

SpecPlaylist == InitPlaylist /\ [][NextPlaylist]_vars

----------------------------------------------------------------------------
(* What the claims are stated with *)

Top == stack[Len(stack)]

Last(q) == q[Len(q)]

InSeq(x, q) == \E i \in 1..Len(q) : q[i] = x

\* the innermost call has just returned
InnermostReturned == pc = "return" /\ Top.iframe_src = None

HtmlAt(url) == player_html(web[url].body)

\* the anchors the loop finds, one per matched div that holds one
RECURSIVE LinksOf(_, _)
LinksOf(nodes, divs) ==
    IF divs = <<>> THEN <<>>
    ELSE LET link == find_link(nodes, Head(divs))
         IN  (IF link = 0 THEN <<>> ELSE <<link>>) \o LinksOf(nodes, Tail(divs))

DiscoveredLinks == LinksOf(main_page.nodes, find_all_divs(main_page.nodes))

\* the records of the calls that returned an address
RECURSIVE RecordsOf(_)
RecordsOf(calls) ==
    IF calls = <<>> THEN <<>>
    ELSE LET c == Last(calls)
         IN  RecordsOf(SubSeq(calls, 1, Len(calls) - 1)) \o
             (IF c.result = None THEN <<>>
              ELSE <<[name |-> name_of(main_page.nodes[c.tag]), url |-> c.result]>>)

\* the latest request was for a player or frame page and failed
LastFetchFailed == Len(requests) > 1 /\ ~fetch_ok(Last(requests))

AfterScrape == pc \in {"main", "create", "open", "write", "finish", "done"}

----------------------------------------------------------------------------
(* C1 *)

\* the indices q of an opening quote that is followed by http(s)://, a run of
\* characters that are neither blank nor quote and hold .m3u8, and a quote
QuotedAddressEnd(s, q) ==
    LET n == SchemeLenAt(s, q + 1)
        e == RunEnd(s, q + 1 + n)
    IN  IF /\ IsQuote(At(s, q))
           /\ n # 0
           /\ e < Len(s)
           /\ IsQuote(At(s, e + 1))
           /\ Contains(SubSeq(s, q + 1 + n, e), ".m3u8")
        THEN e ELSE 0

QuotedStarts(s) == {q \in 1..Len(s) : QuotedAddressEnd(s, q) # 0}

FirstQuotedAddress(s) ==
    LET q == Min(QuotedStarts(s)) IN SubSeq(s, q + 1, QuotedAddressEnd(s, q))

\* C1: when the page text holds a quoted address http(s)://...m3u8..., the
\* call returns the first such address in full, from the scheme up to the
\* closing quote, query string included.
C1_FullQuotedAddress ==
    (/\ InnermostReturned
     /\ fetch_ok(Top.player_page_url)
     /\ QuotedStarts(HtmlAt(Top.player_page_url)) # {})
        => m3u8_url = FirstQuotedAddress(HtmlAt(Top.player_page_url))

----------------------------------------------------------------------------
(* C2 *)

\* C2: every call ends after a small bounded number of recursive
\* frame-following steps (at most 5 below the first call), whatever the
\* remote pages are; it never runs into the interpreter's call-depth ceiling.
C2_BoundedDepth == Len(stack) <= 1 + 5 /\ pc # "crashed"

----------------------------------------------------------------------------
(* C3 *)

\* C3: at every point of a run every accumulated record has a non-empty
\* name and a stream address that begins with http:// or https://.
C3_RecordsWellFormed ==
    \A i \in 1..Len(channels_data) :
        /\ channels_data[i].name # ""
        /\ \/ startswith(channels_data[i].url, "http://")
           \/ startswith(channels_data[i].url, "https://")

----------------------------------------------------------------------------
(* C4 *)

C4_State ==
    /\ channels_data = RecordsOf(resolved)
    /\ \A i \in 1..Len(resolved) :
          ~fetch_ok(resolved[i].url) => resolved[i].result = None
    /\ LastFetchFailed => pc # "crashed"
    /\ (AfterScrape /\ main_page.ok) =>
          [i \in 1..Len(resolved) |-> resolved[i].tag] = DiscoveredLinks

C4_Step ==
    (pc = "return" /\ Len(stack) = 1 /\ LastFetchFailed) =>
        /\ channels_data' = channels_data
        /\ pc' = "loop"
        /\ div_i' = div_i + 1

\* C4: a failed fetch of a player page, or of a frame page reached from it,
\* gives that channel no record and does not abort the run: the loop goes on
\* to the next div, every channel the listing holds has been resolved when
\* the loop ends, and the records are exactly those of the channels whose
\* resolution returned an address.
C4_FetchFailureSkipsChannel == [](C4_State) /\ [][C4_Step]_vars

C4_Witness ==
    /\ pc = "main"
    /\ \E i, j \in 1..Len(resolved) :
          /\ i < j
          /\ ~fetch_ok(resolved[i].url)
          /\ resolved[j].result # None
    /\ channels_data # <<>>

----------------------------------------------------------------------------
(* C5 *)

\* the lines of a text in which every line ends with a line feed
RECURSIVE lines_of(_)
lines_of(s) ==
    IF s = "" THEN <<>>
    ELSE IF \A i \in 1..Len(s) : At(s, i) # "\n" THEN <<s>>
    ELSE LET k == Min({i \in 1..Len(s) : At(s, i) = "\n"})
         IN  <<SubSeq(s, 1, k - 1)>> \o lines_of(SubSeq(s, k + 1, Len(s)))

RECURSIVE ExpectedLines(_)
ExpectedLines(channels) ==
    IF channels = <<>> THEN <<"#EXTM3U">>
    ELSE LET c == Last(channels)
         IN  ExpectedLines(SubSeq(channels, 1, Len(channels) - 1)) \o
             << "#EXTINF:-1 tvg-name=\"" \o c.name \o "\"," \o c.name, c.url >>

\* C5: on an empty sequence no file is created or modified; on n > 0 records
\* and no I/O failure the file holds exactly the line #EXTM3U and then, per
\* record in order, the line #EXTINF:-1 tvg-name="<name>",<name> and the line
\* of the stream address: 1 + 2n lines and nothing else.
C5_PlaylistLines ==
    /\ channels_data = <<>> => file \in {NoFile, OldFile}
    /\ (/\ channels_data # <<>>
        /\ pc = "finish"
        /\ Last(console) = "Playlist saved to")
          => /\ file.exists
             /\ lines_of(file.content) = ExpectedLines(channels_data)
             /\ Len(lines_of(file.content)) = 1 + 2 * Len(channels_data)

----------------------------------------------------------------------------
(* C6 *)

\* C6: the resolver is called once per channel entry: the calls made are on
\* anchors in document order, no anchor twice, so that no entry gives more
\* than one record, nested matched containers included.
C6_OncePerEntry ==
    /\ \A i \in 1..(Len(resolved) - 1) : resolved[i].tag < resolved[i + 1].tag
    /\ channels_data = RecordsOf(resolved)

----------------------------------------------------------------------------
(* C7 *)

GridClass(cls) ==
    \/ Contains(cls, "col-lg-2")
    \/ Contains(cls, "col-md-3")
    \/ Contains(cls, "col-sm-4")
    \/ Contains(cls, "col-xs-6")

NoContainers ==
    \/ ~main_page.ok
    \/ \A n \in 1..Len(main_page.nodes) :
          ~(main_page.nodes[n].tag = "div" /\ GridClass(main_page.nodes[n].cls))

\* the listing holds one channel, whose player page has neither a stream
\* address nor a frame with a source
OnlyChannelDead ==
    /\ main_page.ok
    /\ Len(DiscoveredLinks) = 1
    /\ extract_outcome(player_url_of(main_page.nodes[DiscoveredLinks[1]])).kind = "none"

C7_State ==
    /\ NoContainers =>
          /\ requests \in {<<>>, <<MainUrl>>}
          /\ resolved = <<>>
    /\ (NoContainers \/ OnlyChannelDead) =>
          /\ channels_data = <<>>
          /\ pc \notin {"create", "open", "write", "crashed"}
          /\ pc = "done" =>
                InSeq("No channels were scraped. M3U playlist not created.", console)

C7_Step == (NoContainers \/ OnlyChannelDead) => file' = file

\* C7: when the listing fetch fails or no element matches the layout-grid
\* class patterns, no player page is fetched, the result is empty and the
\* playlist file is neither created nor modified; the run also ends that way,
\* reporting zero channels, when the only channel's player page has neither
\* a stream address nor a frame.
C7_NothingScraped == [](C7_State) /\ [][C7_Step]_vars

C7_Witness ==
    /\ pc = "done"
    /\ main_page.ok
    /\ NoContainers
    /\ \E n \in 1..Len(main_page.nodes) : href_matches(main_page.nodes[n].href)
    /\ file = OldFile

----------------------------------------------------------------------------
(* C8 *)

\* the address without its query and without its last path segment
DirOf(url) ==
    LET qs == {i \in 1..Len(url) : At(url, i) = "?"}
        path == IF qs = {} THEN url ELSE SubSeq(url, 1, Min(qs) - 1)
        ss == {i \in 1..Len(path) : At(path, i) = "/"}
    IN  IF ss = {} THEN "" ELSE SubSeq(path, 1, Max(ss) - 1)

\* C8: a frame source that does not start with http is resolved against the
\* current player-page address with its last path segment and query removed:
\* that, '/', and the source without leading slashes.
C8_RelativeFrameTarget ==
    \A k \in 1..(Len(stack) - 1) :
        ~startswith(stack[k].iframe_src, "http") =>
            stack[k + 1].player_page_url =
                DirOf(stack[k].player_page_url) \o "/"
                    \o lstrip_slash(stack[k].iframe_src)

----------------------------------------------------------------------------
(* C9 *)

NewFile == [exists |-> TRUE, content |-> build_m3u_content(channels_data)]

\* C9: once create_m3u_playlist has started on a non-empty sequence the
\* target holds its previous content (or does not exist) or the complete new
\* text, never an empty or partly written file, also after an I/O failure;
\* a failure is reported and the call returns.
C9_AtomicWrite ==
    (channels_data # <<>> /\ pc \in {"open", "write", "finish"}) =>
        /\ file \in {NoFile, OldFile, NewFile}
        /\ (pc = "finish" /\ file # NewFile) =>
              Last(console) = "Error writing M3U file"

----------------------------------------------------------------------------
(* C10 *)

C10_State ==
    /\ \A k \in 1..(Len(stack) - 1) :
          LET u == stack[k].player_page_url
          IN  /\ fetch_ok(u)
              /\ m3u8_search(HtmlAt(u)) = None
              /\ stack[k].iframe_src # None
              /\ stack[k].iframe_src = iframe_src_of(web[u].body)
              /\ startswith(stack[k].iframe_src, "http") =>
                    stack[k + 1].player_page_url = stack[k].iframe_src
    /\ InnermostReturned =>
          LET u == Top.player_page_url
          IN  /\ Last(requests) = u
              /\ fetch_ok(u) =>
                    /\ m3u8_search(HtmlAt(u)) # None =>
                          m3u8_url = m3u8_search(HtmlAt(u))
                    /\ m3u8_search(HtmlAt(u)) = None =>
                          /\ iframe_src_of(web[u].body) = None
                          /\ m3u8_url = None

C10_Step ==
    /\ (pc = "return" /\ Len(stack) > 1) =>
          (pc' = "return" /\ m3u8_url' = m3u8_url /\ requests' = requests)
    /\ (pc = "return" /\ Len(stack) = 1) =>
          (Last(resolved').result = m3u8_url /\ requests' = requests)

\* C10: a direct match wins over frame-following: a page whose text matches
\* gives that match and nothing more is fetched, iframe or not; a frame is
\* followed only from a page without a match, an absolute source is fetched
\* as it is and the call returns what the call on it returns; without a
\* match and without a frame source the result is not found.
C10_MatchBeforeFrame == [](C10_State) /\ [][C10_Step]_vars

C10_Witness ==
    /\ pc = "return"
    /\ Len(stack) = 1
    /\ Top.iframe_src = None
    /\ fetch_ok(Top.player_page_url)
    /\ iframe_src_of(web[Top.player_page_url].body) # None
    /\ m3u8_url # None
    /\ m3u8_url = m3u8_search(HtmlAt(Top.player_page_url))

====
